---- MODULE Spec2Model ----
(***************************************************************************)
(* A Bloom filter (bloomFilterImpl) whose bits live in a Redis string      *)
(* (RedisBitSet).  Every bit operation of the filter is one Redis command; *)
(* the commands of concurrent callers interleave one by one.               *)
(***************************************************************************)
EXTENDS Integers, Sequences, FiniteSets, TLC

(* ----------------------------- bounds ---------------------------------- *)
\* largest m handed to New
MaxM == 9
\* largest k handed to New
MaxK == 3
\* number of distinct data keys given to Add/Test/...
NumData == 2
\* width of a base hash value in the model (the code's is 64 bits)
HashBits == 8
\* number of operations called on the filters after their construction
MaxOps == 3
\* largest item count handed to EstimateParameters, beside 1000
MaxN == 30

WordMod == 2 ^ HashBits
Data == 1..NumData
\* two goroutines; caller 1 also runs everything that runs alone
Callers == {1, 2}
FilterIds == {"f", "g"}
BitSetIds == {"b1", "b2"}
Nil == "nil"

max(a, b) == IF a > b THEN a ELSE b

(* ------------------------- bytes and bits ------------------------------ *)
Zeros(n) == [j \in 1..n |-> 0]

\* bit `off` of a Redis string; Redis numbers bits from the most
\* significant bit of byte 0, and a bit beyond the end reads as 0
GetBit(val, off) ==
    IF off \div 8 >= Len(val) THEN 0
    ELSE (val[(off \div 8) + 1] \div (2 ^ (7 - (off % 8)))) % 2

\* SETBIT: the string is first padded with zero bytes up to the byte
\* holding `off`, also when the bit written is 0
SetBit(val, off, bit) ==
    LET n   == max(Len(val), (off \div 8) + 1)
        pad == val \o Zeros(n - Len(val))
        w   == 2 ^ (7 - (off % 8))
        old == (pad[(off \div 8) + 1] \div w) % 2
    IN  [pad EXCEPT ![(off \div 8) + 1] = @ + (bit - old) * w]

\* the set of bit offsets that are set in a Redis string
Bits(val) == {off \in 0..(8 * Len(val) - 1) : GetBit(val, off) = 1}

(* ---------------------------- the store -------------------------------- *)
\* a key that was never written reads as the empty string
RGet(st, key) == IF key \in DOMAIN st THEN st[key].val ELSE <<>>
RTtl(st, key) == IF key \in DOMAIN st THEN st[key].ttl ELSE 0

\* SETBIT key off bit: creates the key when missing, keeps its expiration
RSetBit(st, key, off, bit) ==
    (key :> [val |-> SetBit(RGet(st, key), off, bit), ttl |-> RTtl(st, key)]) @@ st

\* SET key value EX ttl: replaces value and expiration (0: no expiration)
RSetVal(st, key, v, exp) ==
    (key :> [val |-> v, ttl |-> exp]) @@ st

\* the bytewise OR of two strings, the shorter one padded with zero bytes
OrBytes(x, y) ==
    LET n == max(Len(x), Len(y))
        b(v, j, i) == IF j > Len(v) THEN 0 ELSE (v[j] \div (2 ^ i)) % 2
        or(j, i) == max(b(x, j, i), b(y, j, i))
    IN  [j \in 1..n |->
            or(j, 0) + 2 * or(j, 1) + 4 * or(j, 2) + 8 * or(j, 3) + 16 * or(j, 4)
                + 32 * or(j, 5) + 64 * or(j, 6) + 128 * or(j, 7)]

RECURSIVE OrOfKeys(_, _)
\* the OR of the values of the source keys of a BITOP OR
OrOfKeys(st, keys) ==
    IF keys = <<>> THEN <<>>
    ELSE OrBytes(RGet(st, Head(keys)), OrOfKeys(st, Tail(keys)))

\* BITOP OR dest key [key ...]: dest is replaced by the OR of the source
\* keys and loses its expiration; an empty result deletes dest
RBitOpOr(st, dest, keys) ==
    IF OrOfKeys(st, keys) = <<>>
    THEN [K \in DOMAIN st \ {dest} |-> st[K]]
    ELSE (dest :> [val |-> OrOfKeys(st, keys), ttl |-> 0]) @@ st

(* ------------------------------ hashing -------------------------------- *)
\* four base hash values of a data key: a fixed, seedless function of it
baseHashes(d) ==
    << (37 * d + 201) % WordMod,
       (101 * d + 77) % WordMod,
       (59 * d * d + 140) % WordMod,
       (13 * d + 5) % WordMod >>

\* the i-th location before the reduction modulo m, with unsigned wraparound
location(h, i) ==
    IF i = 0 THEN h[1]
    ELSE IF i = 1 THEN h[2]
    ELSE (h[1] + (i - 1) * h[2] + (i - 1) * (i - 1) * h[3]) % WordMod


(* ------------------------ parameter estimates -------------------------- *)
\* logarithms are kept in units of 1/LogScale
LogScale == 100000
\* math.Log(2) and math.Pow(math.Log(2), 2)
Log2 == 69315
Log2Sq == 48045
\* -math.Log(p) for the false-positive rates p = 1/q used
NegLog(q) ==
    CASE q = 2 -> 69315 [] q = 10 -> 230259 [] q = 100 -> 460517 [] q = 1000 -> 690776

\* a quotient rounded down
CeilDiv_Floor(a, b) == a \div b

\* math.Ceil of a / b for positive a and b
CeilDiv(a, b) == (a + b - 1) \div b

\* EstimateParameters(n, p) with p = 1/q and n >= 1:
\* m = ceil(-n ln p / (ln 2)^2), k = ceil(ln 2 * m / n)
EstimateParameters(n, q) ==
    LET m == CeilDiv(n * NegLog(q), Log2Sq)
    IN  <<m, CeilDiv(Log2 * m, LogScale * n)>>

\* Locations(data, k): the k locations of a data key before the reduction
\* modulo m
Locations(d, k) == [i \in 1..k |-> location(baseHashes(d), i - 1)]

(* --------------------------- wire format ------------------------------- *)
RECURSIVE Shr8(_, _)
Shr8(n, j) == IF j = 0 THEN n ELSE Shr8(n \div 256, j - 1)

\* binary.Write(stream, binary.BigEndian, uint64(n))
PutUint64(n) == [j \in 1..8 |-> Shr8(n, 8 - j) % 256]

RECURSIVE Uint64(_)
\* binary.BigEndian.Uint64 of a byte sequence
Uint64(bs) ==
    IF bs = <<>> THEN 0
    ELSE 256 * Uint64(SubSeq(bs, 1, Len(bs) - 1)) + bs[Len(bs)]

\* binary.Read of a uint64 at position pos (bytes consumed so far): fails on
\* fewer than 8 remaining bytes
ReadUint64(buf, pos) ==
    IF pos + 8 <= Len(buf)
    THEN [err |-> FALSE, v |-> Uint64(SubSeq(buf, pos + 1, pos + 8)), pos |-> pos + 8]
    ELSE [err |-> TRUE, v |-> 0, pos |-> Len(buf)]

\* bytes.Buffer.Read into a slice of n zero bytes: a short read leaves the
\* tail of the slice zero; only an empty buffer with n > 0 is an error
StreamRead(buf, pos, n) ==
    LET avail == Len(buf) - pos
        got   == IF n < avail THEN n ELSE avail
    IN  IF avail = 0 /\ n > 0
        THEN [err |-> TRUE, p |-> Zeros(n), n |-> 0, pos |-> pos]
        ELSE [err |-> FALSE, p |-> SubSeq(buf, pos + 1, pos + got) \o Zeros(n - got),
              n |-> got, pos |-> pos + got]

\* a uint64 word is kept as its 8 bytes, the most significant first
\* a PutUint64 that writes the most significant byte first
LittlePutUint64_Big(w) == w

\* binary.LittleEndian.PutUint64 of a word
LittlePutUint64(w) == [j \in 1..8 |-> w[9 - j]]

\* binary.LittleEndian.Uint64 of 8 bytes
LittleUint64(bs) == [j \in 1..8 |-> bs[9 - j]]

RECURSIVE Regroup(_)
\* the words of a raw value whose length is a multiple of 8, chunk by chunk
Regroup(raw) ==
    IF raw = <<>> THEN <<>>
    ELSE <<LittleUint64(SubSeq(raw, 1, 8))>> \o Regroup(SubSeq(raw, 9, Len(raw)))

RECURSIVE WordBytes(_)
\* RedisBitSet.From: the byte string built from the words of buf
WordBytes(buf) ==
    IF buf = <<>> THEN <<>>
    ELSE LittlePutUint64(Head(buf)) \o WordBytes(Tail(buf))

\* a WriteTo that writes the expiration before the key
RedisWriteTo_TtlFirst(r, st) ==
    PutUint64(r.expiration) \o PutUint64(Len(r.bitsetKey)) \o r.bitsetKey
        \o PutUint64(Len(RGet(st, r.bitsetKey))) \o RGet(st, r.bitsetKey)

\* RedisBitSet.WriteTo: the bytes written for a handle r, given the raw
\* value stored under its key
RedisWriteTo(r, st) ==
    PutUint64(Len(r.bitsetKey)) \o r.bitsetKey \o PutUint64(r.expiration)
        \o PutUint64(Len(RGet(st, r.bitsetKey))) \o RGet(st, r.bitsetKey)

\* a WriteTo that writes k before m
WriteToBytes_Swapped(fr, r, st) ==
    PutUint64(fr.k) \o PutUint64(fr.m) \o RedisWriteTo(r, st)

\* bloomFilterImpl.WriteTo
WriteToBytes(fr, r, st) ==
    PutUint64(fr.m) \o PutUint64(fr.k) \o RedisWriteTo(r, st)

\* RedisBitSet.WriteTo: the byte count it returns, n + m + 3 * 8 for the n
\* key bytes and the m value bytes written
RedisWriteToCount(r, st) == Len(r.bitsetKey) + Len(RGet(st, r.bitsetKey)) + 24

\* a WriteTo that returns the count of the storage alone
WriteToCount_NoHeader(fr, r, st) == RedisWriteToCount(r, st)

\* bloomFilterImpl.WriteTo: the byte count it returns, numBytes + 2 * 8
WriteToCount(fr, r, st) == RedisWriteToCount(r, st) + 16

\* a ReadFrom that ORs the decoded value into the value the key holds
RedisReadFrom_Merge(r, st, buf, pos) ==
    LET kl == ReadUint64(buf, pos)
        kb == StreamRead(buf, kl.pos, kl.v)
        r1 == [r EXCEPT !.bitsetKey = kb.p]
        ex == ReadUint64(buf, kb.pos)
        r2 == [r1 EXCEPT !.expiration = ex.v]
        vl == ReadUint64(buf, ex.pos)
        vb == StreamRead(buf, vl.pos, vl.v)
    IN  IF kl.err THEN [err |-> TRUE, r |-> r, st |-> st, n |-> 0]
        ELSE IF kb.err THEN [err |-> TRUE, r |-> r, st |-> st, n |-> 0]
        ELSE IF ex.err THEN [err |-> TRUE, r |-> r1, st |-> st, n |-> 0]
        ELSE IF vl.err THEN [err |-> TRUE, r |-> r2, st |-> st, n |-> 0]
        ELSE IF vb.err THEN [err |-> TRUE, r |-> r2, st |-> st, n |-> 0]
        ELSE [err |-> FALSE, r |-> r2,
              st |-> RSetVal(st, r2.bitsetKey, OrBytes(RGet(st, r2.bitsetKey), vb.p),
                             r2.expiration),
              n |-> kb.n + vb.n + 24]

\* a ReadFrom that copies the decoded value under the key the handle
\* already has and keeps the handle as it is
RedisReadFrom_Copy(r, st, buf, pos) ==
    LET kl == ReadUint64(buf, pos)
        kb == StreamRead(buf, kl.pos, kl.v)
        ex == ReadUint64(buf, kb.pos)
        vl == ReadUint64(buf, ex.pos)
        vb == StreamRead(buf, vl.pos, vl.v)
    IN  IF kl.err \/ kb.err \/ ex.err \/ vl.err \/ vb.err
        THEN [err |-> TRUE, r |-> r, st |-> st, n |-> 0]
        ELSE [err |-> FALSE, r |-> r,
              st |-> RSetVal(st, r.bitsetKey, vb.p, r.expiration),
              n |-> kb.n + vb.n + 24]

\* RedisBitSet.ReadFrom from position pos of buf: the handle and the store
\* it leaves, whether it failed, and the byte count it reports
RedisReadFrom(r, st, buf, pos) ==
    LET kl == ReadUint64(buf, pos)
        kb == StreamRead(buf, kl.pos, kl.v)
        r1 == [r EXCEPT !.bitsetKey = kb.p]
        ex == ReadUint64(buf, kb.pos)
        r2 == [r1 EXCEPT !.expiration = ex.v]
        vl == ReadUint64(buf, ex.pos)
        vb == StreamRead(buf, vl.pos, vl.v)
    IN  IF kl.err THEN [err |-> TRUE, r |-> r, st |-> st, n |-> 0]
        ELSE IF kb.err THEN [err |-> TRUE, r |-> r, st |-> st, n |-> 0]
        ELSE IF ex.err THEN [err |-> TRUE, r |-> r1, st |-> st, n |-> 0]
        ELSE IF vl.err THEN [err |-> TRUE, r |-> r2, st |-> st, n |-> 0]
        ELSE IF vb.err THEN [err |-> TRUE, r |-> r2, st |-> st, n |-> 0]
        ELSE [err |-> FALSE, r |-> r2,
              st |-> RSetVal(st, r2.bitsetKey, vb.p, r2.expiration),
              n |-> kb.n + vb.n + 24]

\* bloomFilterImpl.ReadFrom: m and k are assigned only after the storage
\* decoded without error
ReadFromResult(fr, r, st, buf) ==
    LET rm == ReadUint64(buf, 0)
        rk == ReadUint64(buf, rm.pos)
        rb == RedisReadFrom(r, st, buf, rk.pos)
    IN  IF rm.err \/ rk.err THEN [err |-> TRUE, fr |-> fr, r |-> r, st |-> st, n |-> 0]
        ELSE IF rb.err THEN [err |-> TRUE, fr |-> fr, r |-> rb.r, st |-> rb.st, n |-> 0]
        ELSE [err |-> FALSE, fr |-> [fr EXCEPT !.m = rm.v, !.k = rk.v],
              r |-> rb.r, st |-> rb.st, n |-> rb.n + 16]


(* ------------------------------ state ---------------------------------- *)
VARIABLES
    store,    \* the remote store: external key -> [val: raw bytes, ttl]
    bitset,   \* RedisBitSet handles: id -> [bitsetKey, expiration]
    filter,   \* bloomFilterImpl objects built so far: id -> [m, k, b]
    stream,   \* the bytes of the last WriteTo / GobEncode
    call,     \* per caller: the operation in progress and its locals
    added,    \* history: <<key, m, k, data, via>> added and not reset since
    expect,   \* history: key -> bits set at the last reset plus bits of adds begun
    dirty,    \* history: keys reset while an operation on them was in flight
    wrote,    \* history: the filter last written and the keys added to it then
    nops,     \* number of operations called so far
    overlap   \* whether two operations have run concurrently so far

vars == <<store, bitset, filter, stream, call, added, expect, dirty, wrote, nops, overlap>>

\* the (m, k) pairs handed to New: the degenerate pair, a one-byte filter
\* whose positions collide, and a two-byte filter
NewArgs == {<<0, 0>>, <<3, 2>>, <<MaxM, MaxK>>}
\* f is built on handle b1, g on either handle
HandlesFor(f) == IF f = "f" THEN {"b1"} ELSE BitSetIds
AddOps == {"Add", "TestAndAdd", "TestOrAdd"}
\* how a key got into the filter: by Add, or by TestAndAdd / TestOrAdd
Via(op) == IF op = "Add" THEN "Add" ELSE "TestAdd"
KeyOps == AddOps \cup {"Test"}

\* pre, log, alone, clean, was and est are history: the raw value at the
\* call, the commands issued (both kept only for a call that runs alone),
\* whether a reset hit the call, whether the data key's positions were all
\* set at the call, and how the data key had been added on the external key
\* before the call: pairs <<via, same>>, same telling whether it was added
\* with the m and k of the filter called; args are the arguments of a
\* constructor or of TestLocations, failed tells whether a command of the
\* call failed, out holds the numbers a call returned
IdleCall ==
    [pc |-> "idle", op |-> Nil, f |-> Nil, g |-> Nil, data |-> 0, i |-> 0, l |-> 0,
     present |-> TRUE, ret |-> FALSE, err |-> FALSE, tmp |-> <<>>,
     pre |-> <<>>, log |-> <<>>, alone |-> TRUE, clean |-> TRUE,
     was |-> FALSE, est |-> {}, args |-> <<>>, failed |-> FALSE, out |-> <<>>]

\* NewRedisBitSet(client, "a", 60) and NewRedisBitSet(client, "bc", 0)
Handles ==
    [b \in BitSetIds |->
        IF b = "b1" THEN [bitsetKey |-> <<97>>, expiration |-> 60]
        ELSE [bitsetKey |-> <<98, 99>>, expiration |-> 0]]

\* two handles made, no filter built yet, nothing stored
Init ==
    /\ store = << >>
    /\ bitset = Handles
    /\ filter = << >>
    /\ stream = << >>
    /\ call = [c \in Callers |-> IdleCall]
    /\ added = {}
    /\ expect = << >>
    /\ dirty = {}
    /\ wrote = [f |-> Nil, added |-> {}]
    /\ nops = 0
    /\ overlap = FALSE

(* ------------------------ filter-level helpers ------------------------- *)
\* bloomFilterImpl.location: the i-th bit position of a key in this filter
flocation(fr, h, i) == location(h, i) % fr.m

KeyOf(f) == bitset[filter[f].b].bitsetKey
InFlight(c) == call[c].pc \notin {"idle", "done"}
Free(c) == call[c].pc = "idle"
EGet(K) == IF K \in DOMAIN expect THEN expect[K] ELSE {}

\* the bit positions of data key d in a filter with parameters fr
Positions(fr, d) == {flocation(fr, baseHashes(d), i) : i \in 0..(fr.k - 1)}

\* whether every position of d is set in the raw value val
AllSet(val, fr, d) == \A p \in Positions(fr, d) : GetBit(val, p) = 1

\* a Set that also applies the handle's expiration to the key
RedisSet_Expire(r, st, i) ==
    RSetVal(st, r.bitsetKey, SetBit(RGet(st, r.bitsetKey), i, 1), r.expiration)

\* a Set that passes 0 as the bit value
RedisSet_Zero(r, st, i) == RSetBit(st, r.bitsetKey, i, 0)

\* a Set that flips the bit instead of setting it
RedisSet_Toggle(r, st, i) ==
    RSetBit(st, r.bitsetKey, i, 1 - GetBit(RGet(st, r.bitsetKey), i))

\* a Set that writes the bit from the other end of the byte
RedisSet_LSBFirst(r, st, i) == RSetBit(st, r.bitsetKey, 8 * (i \div 8) + 7 - (i % 8), 1)

\* RedisBitSet.Set: SETBIT key i 1
RedisSet(r, st, i) == RSetBit(st, r.bitsetKey, i, 1)

\* RedisBitSet.UnSet: SETBIT key i 0
RedisUnSet(r, st, i) == RSetBit(st, r.bitsetKey, i, 0)

\* a Test that reads the bit after the one asked for
RedisTest_Next(r, st, i) == GetBit(RGet(st, r.bitsetKey), i + 1) = 1

\* RedisBitSet.Test: GETBIT key i
RedisTest(r, st, i) == GetBit(RGet(st, r.bitsetKey), i) = 1

\* a ClearAll that only does what Init does
RedisClearAll_Init(r, st) == RSetBit(st, r.bitsetKey, 0, 0)

\* RedisBitSet.ClearAll: SET key "" with the handle's expiration
RedisClearAll(r, st) == RSetVal(st, r.bitsetKey, <<>>, r.expiration)

\* RedisBitSet.Count: BITCOUNT key
RedisCount(r, st) == Cardinality(Bits(RGet(st, r.bitsetKey)))

\* RedisBitSet.From: SET key bytes with the handle's expiration
RedisFrom(r, st, buf) == RSetVal(st, r.bitsetKey, WordBytes(buf), r.expiration)

\* RedisBitSet.InPlaceUnion: BitOpOr(ctx, r.bitsetKey, compare.GetBitSetKey()),
\* destination r.bitsetKey, the key of compare the only source
RedisInPlaceUnion(r, st, compare) == RBitOpOr(st, r.bitsetKey, <<compare.bitsetKey>>)

\* RedisBitSet.Init: r.UnSet(length)
RedisInit(r, st, length) == RedisUnSet(r, st, length)

\* RedisBitSet.Equal: the == of the two raw strings it fetched
RawEqual(x, y) == x = y

\* a New that keeps m and k as given
Clamp_None(x) == x

\* New: max(1, m) and max(1, k)
Clamp(x) == max(1, x)

\* Cap() and K() of a filter
Cap(fr) == fr.m
FilterK(fr) == fr.k

\* the first location(h, 0) % uint64(f.m) of a key operation is an integer
\* division by zero, a run-time panic, when m is 0 and the loop is entered
Panics(fr) == fr.m = 0 /\ fr.k > 0

\* a TestLocations that does not reduce the location modulo m
LocBit_NoMod(fr, v) == v

\* TestLocations: the bit tested for the location v, uint(v % uint64(f.m))
LocBit(fr, v) == v % fr.m

\* the lists handed to TestLocations of a filter: none, the locations of
\* a data key for the k of the filter, and a list unrelated to any key
\* with a value beyond m
LocLists(fr) == {<< >>, <<MaxM + 2, 1>>} \cup {Locations(d, fr.k) : d \in Data}

\* a loop that stops one iteration early
More_OffByOne(fr, i) == i < fr.k - 1

\* the loop condition of Add, Test, TestAndAdd and TestOrAdd
More(fr, i) == i < fr.k

\* present overwritten by the last test instead of only ever cleared
Present_LastOnly(present, bit) == bit

\* present cleared by a set bit instead of an unset one
Present_Inverted(present, bit) == IF bit THEN FALSE ELSE present

\* TestAndAdd / TestOrAdd: present after testing a bit
Present(present, bit) == IF bit THEN present ELSE FALSE

\* a TestOrAdd that sets every position, as TestAndAdd does
NeedsSet_Always(bit) == TRUE

\* TestOrAdd sets a position only when its test found it unset
NeedsSet(bit) == ~bit

(* ------------------------ history bookkeeping -------------------------- *)
\* callers in flight whose operation runs on one of the keys Ks or through
\* one of the handles Bs
Touched(Ks, Bs) ==
    {c \in Callers : /\ InFlight(c)
                     /\ \/ filter[call[c].f].b \in Bs
                        \/ KeyOf(call[c].f) \in Ks}

\* the caller records after caller c finished a one-command operation that
\* rewrote the keys Ks / handles Bs
AfterReset(c, rec, Ks, Bs) ==
    [d \in Callers |->
        IF d = c THEN rec
        ELSE IF d \in Touched(Ks, Bs) THEN [call[d] EXCEPT !.clean = FALSE]
        ELSE call[d]]

DirtyAfter(Ks, Bs) ==
    IF Touched(Ks, Bs) # {} THEN dirty \cup Ks ELSE dirty \ Ks

ExpectAfter(Ks, st) ==
    [K \in DOMAIN expect \cup Ks |->
        IF K \in Ks THEN Bits(RGet(st, K)) ELSE expect[K]]

\* the log of a call after one more command, kept while the call runs alone
Logged(c, entry) == IF call[c].alone THEN Append(call[c].log, entry) ELSE <<>>

(* ------------------------------ actions -------------------------------- *)
\* the body of New(m, k, b), entered as `op` with arguments `args`: clamps
\* m and k, and b.Init(m) issues SETBIT key m 0
NewAs(c, f, m, k, b, op, args) ==
    /\ Free(c)
    /\ f \notin DOMAIN filter
    /\ LET K   == bitset[b].bitsetKey
           st2 == RedisInit(bitset[b], store, m)
       IN  /\ store' = st2
           /\ filter' = (f :> [m |-> Clamp(m), k |-> Clamp(k), b |-> b]) @@ filter
           /\ call' = AfterReset(c, [IdleCall EXCEPT !.pc = "done", !.op = op, !.f = f,
                                                     !.args = args,
                                                     !.pre = RGet(store, K),
                                                     !.log = << <<"UnSet", m>> >>],
                                 {K}, {})
           /\ added' = {t \in added : ~(t[1] = K /\ t[2] > m)}
           /\ expect' = ExpectAfter({K}, st2)
           /\ dirty' = DirtyAfter({K}, {})
    /\ UNCHANGED <<bitset, stream, wrote, nops, overlap>>

\* New(m, k, b)
New(c, f, m, k, b) == NewAs(c, f, m, k, b, "New", <<m, k>>)

\* NewWithEstimates(n, fp, b) with fp = 1/q:
\* m, k := EstimateParameters(n, fp); return New(m, k, b)
NewWithEstimates(c, f, n, q, b) ==
    LET e == EstimateParameters(n, q)
    IN  NewAs(c, f, e[1], e[2], b, "NewWithEstimates", <<n, q>>)

\* the body of FromWithM(data, m, k, b), entered as `op` for the filter
\* src: m and k are stored as given, b.From(data) replaces the value of
\* the key
FromAs(c, f, data, m, k, b, op, src) ==
    /\ Free(c)
    /\ f \notin DOMAIN filter
    /\ LET K   == bitset[b].bitsetKey
           st2 == RedisFrom(bitset[b], store, data)
       IN  /\ store' = st2
           /\ filter' = (f :> [m |-> m, k |-> k, b |-> b]) @@ filter
           /\ call' = AfterReset(c, [IdleCall EXCEPT !.pc = "done", !.op = op, !.f = f,
                                                     !.g = src,
                                                     !.args = <<data, k>>,
                                                     !.pre = RGet(store, K)],
                                 {K}, {})
           /\ added' = {t \in added : t[1] # K}
           /\ expect' = ExpectAfter({K}, st2)
           /\ dirty' = DirtyAfter({K}, {})
    /\ UNCHANGED <<bitset, stream, wrote, nops, overlap>>

\* FromWithM(data, m, k, b)
FromWithM(c, f, data, m, k, b) == FromAs(c, f, data, m, k, b, "From", Nil)

\* From(data, k, b): m := len(data) * 64
From(c, f, data, k, b) == FromWithM(c, f, data, 64 * Len(data), k, b)

\* the raw value of f's key is fetched, cut into chunks of 8 bytes, each
\* read as a little-endian word, and From builds g from the words on a
\* handle with another key
Clone(c, f, g, b) ==
    /\ f \in DOMAIN filter
    /\ bitset[b].bitsetKey # KeyOf(f)
    /\ Len(RGet(store, KeyOf(f))) % 8 = 0
    /\ FromAs(c, g, Regroup(RGet(store, KeyOf(f))), 64 * Len(Regroup(RGet(store, KeyOf(f)))),
              filter[f].k, b, "Clone", f)

\* the same on a raw value that does not end on a word: Uint64 of the
\* short last chunk panics
ClonePanic(c, f) ==
    /\ Free(c)
    /\ f \in DOMAIN filter
    /\ Len(RGet(store, KeyOf(f))) % 8 # 0
    /\ call' = [call EXCEPT ![c] = [IdleCall EXCEPT !.pc = "panic", !.op = "Clone", !.g = f]]
    /\ UNCHANGED <<store, bitset, filter, stream, added, expect, dirty, wrote, nops, overlap>>

\* a caller enters Add, Test, TestAndAdd or TestOrAdd with data key d:
\* h := baseHashes(data), i := 0, present := true
Begin(c, f, op, d, limit) ==
    /\ Free(c)
    /\ nops < limit
    /\ nops' = nops + 1
    /\ f \in DOMAIN filter
    /\ ~Panics(filter[f])
    /\ LET K     == KeyOf(f)
           fr    == filter[f]
           busy  == \E o \in Callers : InFlight(o)
           rec   == [IdleCall EXCEPT
                        !.pc = "loop", !.op = op, !.f = f, !.data = d,
                        !.alone = ~busy,
                        !.pre = IF busy THEN <<>> ELSE RGet(store, K),
                        !.was = AllSet(RGet(store, K), fr, d),
                        !.est = {<<t[5], <<t[2], t[3]>> = <<fr.m, fr.k>>>> :
                                    t \in {u \in added : <<u[1], u[4]>> = <<K, d>>}}]
       IN  /\ call' = [o \in Callers |->
                          IF o = c THEN rec
                          ELSE IF InFlight(o)
                               THEN [call[o] EXCEPT !.alone = FALSE, !.pre = <<>>, !.log = <<>>]
                               ELSE call[o]]
           /\ expect' = IF op \in AddOps
                        THEN (K :> (EGet(K) \cup Positions(fr, d))) @@ expect
                        ELSE expect
           /\ overlap' = (overlap \/ busy)
    /\ UNCHANGED <<store, bitset, filter, stream, added, dirty, wrote>>

\* Add, Test, TestAndAdd or TestOrAdd called on a filter with m = 0 and
\* k > 0: the goroutine panics before its first command
Panic(c, f, op, d) ==
    /\ Free(c)
    /\ nops < MaxOps
    /\ nops' = nops + 1
    /\ f \in DOMAIN filter
    /\ Panics(filter[f])
    /\ call' = [call EXCEPT ![c] =
           [IdleCall EXCEPT !.pc = "panic", !.op = op, !.f = f, !.data = d]]
    /\ UNCHANGED <<store, bitset, filter, stream, added, expect, dirty, wrote, overlap>>

\* one iteration of the loop of Add: f.b.Set(f.location(h, i))
AddStep(c) ==
    /\ call[c].pc = "loop" /\ call[c].op = "Add"
    /\ LET fr == filter[call[c].f]
           l  == flocation(fr, baseHashes(call[c].data), call[c].i)
       IN  /\ More(fr, call[c].i)
           /\ store' = RedisSet(bitset[fr.b], store, l)
           /\ call' = [call EXCEPT ![c].i = @ + 1,
                                   ![c].log = Logged(c, <<"Set", l>>)]
    /\ UNCHANGED <<bitset, filter, stream, added, expect, dirty, wrote, nops, overlap>>

\* one iteration of the loop of Test: return false on the first unset bit
TestStep(c) ==
    /\ call[c].pc = "loop" /\ call[c].op = "Test"
    /\ LET fr  == filter[call[c].f]
           l   == flocation(fr, baseHashes(call[c].data), call[c].i)
           bit == RedisTest(bitset[fr.b], store, l)
       IN  /\ More(fr, call[c].i)
           /\ call' = [call EXCEPT
                  ![c].log = Logged(c, <<"Test", l, bit>>),
                  ![c].i = IF bit THEN @ + 1 ELSE @,
                  ![c].pc = IF bit THEN "loop" ELSE "done",
                  ![c].ret = FALSE]
    /\ UNCHANGED <<store, bitset, filter, stream, added, expect, dirty, wrote, nops, overlap>>

\* an iteration of Add whose SETBIT fails (network, timeout, auth): the
\* command is lost, Set drops the result and the loop goes on
AddStepFail(c) ==
    /\ call[c].pc = "loop" /\ call[c].op = "Add"
    /\ More(filter[call[c].f], call[c].i)
    /\ call' = [call EXCEPT ![c].i = @ + 1, ![c].failed = TRUE, ![c].log = <<>>]
    /\ UNCHANGED <<store, bitset, filter, stream, added, expect, dirty, wrote, nops, overlap>>

\* an iteration of Test whose GETBIT fails: Val() of the failed command is
\* 0, so RedisBitSet.Test is false and Test returns false
TestStepFail(c) ==
    /\ call[c].pc = "loop" /\ call[c].op = "Test"
    /\ More(filter[call[c].f], call[c].i)
    /\ call' = [call EXCEPT ![c].pc = "done", ![c].ret = FALSE, ![c].failed = TRUE,
                            ![c].log = <<>>]
    /\ UNCHANGED <<store, bitset, filter, stream, added, expect, dirty, wrote, nops, overlap>>

\* a caller enters TestLocations(locs); with no location the loop is not
\* entered and true is returned
BeginLocations(c, f, locs) ==
    /\ Free(c)
    /\ nops < MaxOps
    /\ nops' = nops + 1
    /\ f \in DOMAIN filter
    /\ call' = [call EXCEPT ![c] =
           [IdleCall EXCEPT !.pc = IF locs = <<>> THEN "done" ELSE "loop",
                            !.op = "TestLocations", !.f = f, !.args = locs,
                            !.ret = (locs = <<>>),
                            !.pre = RGet(store, KeyOf(f))]]
    /\ UNCHANGED <<store, bitset, filter, stream, added, expect, dirty, wrote, overlap>>

\* one iteration of the loop of TestLocations: false on the first unset
\* bit, true after the last location
TestLocationsStep(c) ==
    /\ call[c].pc = "loop" /\ call[c].op = "TestLocations"
    /\ LET fr  == filter[call[c].f]
           bit == RedisTest(bitset[fr.b], store, LocBit(fr, call[c].args[call[c].i + 1]))
           end == ~bit \/ call[c].i + 1 >= Len(call[c].args)
       IN  call' = [call EXCEPT
               ![c].log = Logged(c, <<"Test", LocBit(fr, call[c].args[call[c].i + 1]), bit>>),
               ![c].i = IF bit THEN @ + 1 ELSE @,
               ![c].pc = IF end THEN "done" ELSE "loop",
               ![c].ret = bit]
    /\ UNCHANGED <<store, bitset, filter, stream, added, expect, dirty, wrote, nops, overlap>>

\* TestAndAdd, first half of an iteration: l := f.location(h, i); test it
TestAndAddTest(c) ==
    /\ call[c].pc = "loop" /\ call[c].op = "TestAndAdd"
    /\ LET fr  == filter[call[c].f]
           l   == flocation(fr, baseHashes(call[c].data), call[c].i)
           bit == RedisTest(bitset[fr.b], store, l)
       IN  /\ More(fr, call[c].i)
           /\ call' = [call EXCEPT
                  ![c].log = Logged(c, <<"Test", l, bit>>),
                  ![c].l = l,
                  ![c].present = Present(@, bit),
                  ![c].pc = "set"]
    /\ UNCHANGED <<store, bitset, filter, stream, added, expect, dirty, wrote, nops, overlap>>

\* TestAndAdd, second half of an iteration: f.b.Set(l), whatever the test said
TestAndAddSet(c) ==
    /\ call[c].pc = "set" /\ call[c].op = "TestAndAdd"
    /\ store' = RedisSet(bitset[filter[call[c].f].b], store, call[c].l)
    /\ call' = [call EXCEPT ![c].log = Logged(c, <<"Set", call[c].l>>),
                            ![c].i = @ + 1,
                            ![c].pc = "loop"]
    /\ UNCHANGED <<bitset, filter, stream, added, expect, dirty, wrote, nops, overlap>>

\* TestOrAdd, the test of an iteration: only an unset bit leads to a Set
TestOrAddTest(c) ==
    /\ call[c].pc = "loop" /\ call[c].op = "TestOrAdd"
    /\ LET fr  == filter[call[c].f]
           l   == flocation(fr, baseHashes(call[c].data), call[c].i)
           bit == RedisTest(bitset[fr.b], store, l)
       IN  /\ More(fr, call[c].i)
           /\ call' = [call EXCEPT
                  ![c].log = Logged(c, <<"Test", l, bit>>),
                  ![c].l = l,
                  ![c].present = Present(@, bit),
                  ![c].i = IF NeedsSet(bit) THEN @ ELSE @ + 1,
                  ![c].pc = IF NeedsSet(bit) THEN "set" ELSE "loop"]
    /\ UNCHANGED <<store, bitset, filter, stream, added, expect, dirty, wrote, nops, overlap>>

\* TestOrAdd, the Set of an iteration whose bit was found unset
TestOrAddSet(c) ==
    /\ call[c].pc = "set" /\ call[c].op = "TestOrAdd"
    /\ store' = RedisSet(bitset[filter[call[c].f].b], store, call[c].l)
    /\ call' = [call EXCEPT ![c].log = Logged(c, <<"Set", call[c].l>>),
                            ![c].i = @ + 1,
                            ![c].pc = "loop"]
    /\ UNCHANGED <<bitset, filter, stream, added, expect, dirty, wrote, nops, overlap>>

\* the loop of Add / Test / TestAndAdd / TestOrAdd ran out (i >= k): Test
\* returns true, the others return present (Add returns the filter)
Return(c) ==
    /\ call[c].pc = "loop" /\ call[c].op \in KeyOps
    /\ LET fr == filter[call[c].f]
           K  == KeyOf(call[c].f)
       IN  /\ ~More(fr, call[c].i)
           /\ call' = [call EXCEPT ![c].pc = "done", ![c].ret = call[c].present]
           /\ added' = IF call[c].op \in AddOps /\ call[c].clean
                       THEN added \cup {<<K, fr.m, fr.k, call[c].data, Via(call[c].op)>>}
                       ELSE added
    /\ UNCHANGED <<store, bitset, filter, stream, expect, dirty, wrote, nops, overlap>>

\* a filter that would come back from ClearAll with the smallest parameters
ClearAllReturn_Fresh(fr) == [fr EXCEPT !.m = 1, !.k = 1]

\* the filter ClearAll returns: its receiver
ClearAllReturn(fr) == fr

\* ClearAll: SET key "" with the handle's expiration
ClearAll(c, f) ==
    /\ Free(c)
    /\ nops < MaxOps
    /\ nops' = nops + 1
    /\ f \in DOMAIN filter
    /\ LET K   == KeyOf(f)
           st2 == RedisClearAll(bitset[filter[f].b], store)
       IN  /\ store' = st2
           /\ call' = AfterReset(c, [IdleCall EXCEPT !.pc = "done", !.op = "ClearAll", !.f = f,
                                                     !.pre = RGet(store, K)],
                                 {K}, {})
           /\ added' = {t \in added : t[1] # K}
           /\ expect' = ExpectAfter({K}, st2)
           /\ dirty' = DirtyAfter({K}, {})
    /\ filter' = [filter EXCEPT ![f] = ClearAllReturn(@)]
    /\ UNCHANGED <<bitset, stream, wrote, overlap>>

\* WriteTo / GobEncode into a fresh buffer: one GET of the raw value
WriteTo(c, f) ==
    /\ Free(c)
    /\ nops < MaxOps
    /\ nops' = nops + 1
    /\ f \in DOMAIN filter
    /\ LET fr == filter[f]
           K  == KeyOf(f)
       IN  /\ stream' = WriteToBytes(fr, bitset[fr.b], store)
           /\ wrote' = [f |-> f,
                        added |-> {t[4] : t \in {u \in added :
                                     <<u[1], u[2], u[3]>> = <<K, fr.m, fr.k>>}}]
           /\ call' = [call EXCEPT ![c] =
                  [IdleCall EXCEPT !.pc = "done", !.op = "WriteTo", !.f = f,
                                   !.out = <<WriteToCount(fr, bitset[fr.b], store)>>]]
    /\ UNCHANGED <<store, bitset, filter, added, expect, dirty, overlap>>

\* ReadFrom / GobDecode of the bytes buf into filter g, entered as `op`
Decode(c, g, buf, op, args) ==
    /\ Free(c)
    /\ nops < MaxOps
    /\ nops' = nops + 1
    /\ g \in DOMAIN filter
    /\ LET b   == filter[g].b
           res == ReadFromResult(filter[g], bitset[b], store, buf)
           Ks  == IF res.r = bitset[b] /\ res.st = store
                  THEN {}
                  ELSE {bitset[b].bitsetKey, res.r.bitsetKey}
           Bs  == IF res.r = bitset[b] /\ res.fr = filter[g] THEN {} ELSE {b}
       IN  /\ store' = res.st
           /\ bitset' = [bitset EXCEPT ![b] = res.r]
           /\ filter' = [filter EXCEPT ![g] = res.fr]
           /\ call' = AfterReset(c, [IdleCall EXCEPT !.pc = "done", !.op = op,
                                                     !.f = g, !.err = res.err,
                                                     !.args = args,
                                                     !.out = <<res.n>>,
                                                     !.pre = RGet(store, res.r.bitsetKey),
                                                     !.tmp = bitset[b].bitsetKey],
                                 Ks, Bs)
           /\ added' = {t \in added : t[1] \notin Ks}
           /\ expect' = ExpectAfter(Ks, res.st)
           /\ dirty' = DirtyAfter(Ks, Bs)
    /\ UNCHANGED <<stream, wrote, overlap>>

\* ReadFrom / GobDecode of the bytes last written, into filter g
ReadFrom(c, g) == Decode(c, g, stream, "ReadFrom", <<>>)

\* ReadFrom / GobDecode of the first n bytes of the bytes last written, a
\* strict prefix of them
ReadFromCut(c, g, n) ==
    /\ wrote.f # Nil
    /\ n < Len(stream)
    /\ Decode(c, g, SubSeq(stream, 1, n), "ReadFromCut", <<n>>)

\* a.InPlaceUnion(b) on two handles: one BITOP command
InPlaceUnion(c, a, b) ==
    /\ Free(c)
    /\ nops < MaxOps
    /\ nops' = nops + 1
    /\ LET K   == bitset[a].bitsetKey
           st2 == RedisInPlaceUnion(bitset[a], store, bitset[b])
       IN  /\ store' = st2
           /\ call' = AfterReset(c, [IdleCall EXCEPT !.pc = "done", !.op = "InPlaceUnion",
                                                     !.args = <<a, b>>,
                                                     !.pre = RGet(store, K),
                                                     !.tmp = RGet(store, bitset[b].bitsetKey)],
                                 {K}, {})
           /\ added' = {t \in added : t[1] # K}
           /\ expect' = ExpectAfter({K}, st2)
           /\ dirty' = DirtyAfter({K}, {})
    /\ UNCHANGED <<bitset, filter, stream, wrote, overlap>>

\* a caller enters f.Equal(g)
BeginEqual(c, f, g) ==
    /\ Free(c)
    /\ nops < MaxOps
    /\ nops' = nops + 1
    /\ f \in DOMAIN filter /\ g \in DOMAIN filter
    /\ call' = [call EXCEPT ![c] =
           [IdleCall EXCEPT !.pc = "loop", !.op = "Equal", !.f = f, !.g = g]]
    /\ UNCHANGED <<store, bitset, filter, stream, added, expect, dirty, wrote, overlap>>

\* Equal: f.m == g.Cap() && f.k == g.K() && ..., then the first GET of
\* RedisBitSet.Equal (the handle's own key)
EqualGet1(c) ==
    /\ call[c].pc = "loop" /\ call[c].op = "Equal"
    /\ LET fr == filter[call[c].f]
           gr == filter[call[c].g]
       IN  IF fr.m = gr.m /\ fr.k = gr.k
           THEN call' = [call EXCEPT ![c].tmp = RGet(store, bitset[fr.b].bitsetKey),
                                     ![c].pc = "get2"]
           ELSE call' = [call EXCEPT ![c].ret = FALSE, ![c].pc = "done"]
    /\ UNCHANGED <<store, bitset, filter, stream, added, expect, dirty, wrote, nops, overlap>>

\* RedisBitSet.Equal: the second GET (c.GetBitSetKey()) and the comparison
\* of the two raw strings
EqualGet2(c) ==
    /\ call[c].pc = "get2" /\ call[c].op = "Equal"
    /\ LET gr == filter[call[c].g]
       IN  call' = [call EXCEPT
               ![c].ret = RawEqual(call[c].tmp, RGet(store, bitset[gr.b].bitsetKey)),
               ![c].pc = "done"]
    /\ UNCHANGED <<store, bitset, filter, stream, added, expect, dirty, wrote, nops, overlap>>

\* the caller has its result and is free to make its next call
Ack(c) ==
    /\ call[c].pc = "done"
    /\ call' = [call EXCEPT ![c] = IdleCall]
    /\ UNCHANGED <<store, bitset, filter, stream, added, expect, dirty, wrote, nops, overlap>>

(* --------------------------- specifications ---------------------------- *)
\* the commands and the return of the key operations of caller c
KeySteps(c) ==
    \/ AddStep(c)
    \/ TestStep(c)
    \/ TestAndAddTest(c)
    \/ TestAndAddSet(c)
    \/ TestOrAddTest(c)
    \/ TestOrAddSet(c)
    \/ Return(c)
    \/ Ack(c)

\* the filters a single caller builds, on either handle, at any time
Build ==
    \E f \in FilterIds : \E a \in NewArgs, b \in HandlesFor(f) : New(1, f, a[1], a[2], b)

\* the (n, q) pairs handed to NewWithEstimates: n items at a
\* false-positive rate of 1/q
EstimateArgs == {<<1, 2>>, <<2, 10>>}

BuildWithEstimates ==
    \E f \in FilterIds : \E a \in EstimateArgs, b \in HandlesFor(f) :
        NewWithEstimates(1, f, a[1], a[2], b)

\* a word with bits in its two low bytes
SampleWord == <<0, 0, 0, 0, 0, 0, 1, 2>>
\* the (data, k) pairs handed to From: no word at all, one word, and one
\* word with k = 0
FromArgs == {<< <<>>, 2 >>, << <<SampleWord>>, 2 >>, << <<SampleWord>>, 0 >>}

BuildFrom ==
    \E f \in FilterIds : \E a \in FromArgs, b \in HandlesFor(f) : From(1, f, a[1], a[2], b)

\* one caller that builds filters in every way and adds and tests
NextBuild ==
    \/ Build
    \/ BuildWithEstimates
    \/ BuildFrom
    \/ \E f \in FilterIds, op \in {"Add", "Test"}, d \in Data : Panic(1, f, op, d)
    \/ \E f \in FilterIds, op \in {"Add", "Test"}, d \in Data : Begin(1, f, op, d, MaxOps)
    \/ AddStep(1)
    \/ TestStep(1)
    \/ Return(1)
    \/ Ack(1)

SpecBuild == Init /\ [][NextBuild]_vars

\* one caller that builds filters, adds, and unites the two storages
NextUnion ==
    \/ Build
    \/ \E f \in FilterIds, d \in Data : Begin(1, f, "Add", d, MaxOps)
    \/ AddStep(1)
    \/ Return(1)
    \/ Ack(1)
    \/ \E a \in BitSetIds, b \in BitSetIds : InPlaceUnion(1, a, b)

SpecUnion == Init /\ [][NextUnion]_vars

\* one caller that adds and tests while commands to the store may fail
NextFaulty ==
    \/ Build
    \/ \E f \in FilterIds, op \in {"Add", "Test"}, d \in Data : Begin(1, f, op, d, MaxOps - 1)
    \/ AddStep(1)
    \/ AddStepFail(1)
    \/ TestStep(1)
    \/ TestStepFail(1)
    \/ Return(1)
    \/ Ack(1)

SpecFaulty == Init /\ [][NextFaulty]_vars

\* one caller that adds, encodes, and decodes truncated payloads
NextDecode ==
    \/ Build
    \/ \E f \in FilterIds, d \in Data : Begin(1, f, "Add", d, MaxOps)
    \/ AddStep(1)
    \/ Return(1)
    \/ Ack(1)
    \/ \E f \in FilterIds : WriteTo(1, f)
    \/ \E g \in FilterIds : \E n \in 0..(Len(stream) - 1) : ReadFromCut(1, g, n)

SpecDecode == Init /\ [][NextDecode]_vars

\* the (m, k) pairs handed to New for a filter that is exported: one whose
\* value is a whole word although m is not 64, and one whose value is not
CloneNewArgs == {<<60, 2>>, <<MaxM, MaxK>>}

\* one caller that builds f by From or New, adds and tests, and exports f
\* into g
NextClone ==
    \/ \E a \in CloneNewArgs : New(1, "f", a[1], a[2], "b1")
    \/ \E a \in FromArgs : From(1, "f", a[1], a[2], "b1")
    \/ \E f \in FilterIds, op \in {"Add", "Test"}, d \in Data : Begin(1, f, op, d, MaxOps)
    \/ \E f \in FilterIds, op \in {"Add", "Test"}, d \in Data : Panic(1, f, op, d)
    \/ AddStep(1)
    \/ TestStep(1)
    \/ Return(1)
    \/ Ack(1)
    \/ Clone(1, "f", "g", "b2")
    \/ ClonePanic(1, "f")

SpecClone == Init /\ [][NextClone]_vars

\* one caller that adds and tests lists of locations
NextLocations ==
    \/ Build
    \/ \E f \in FilterIds, d \in Data : Begin(1, f, "Add", d, MaxOps)
    \/ AddStep(1)
    \/ Return(1)
    \/ Ack(1)
    \/ \E f \in DOMAIN filter : \E locs \in LocLists(filter[f]) : BeginLocations(1, f, locs)
    \/ TestLocationsStep(1)

SpecLocations == Init /\ [][NextLocations]_vars

\* math.Log of 1..12, in units of 1 / LogScale
LnInt(j) ==
    <<0, 69315, 109861, 138629, 160944, 179176, 194591, 207944, 219722,
      230259, 239790, 248491>>[j]

\* the largest integer of the model; it stands for the uint32 that a
\* conversion of an out-of-range float64 may produce
SizeMax == 2147483647

\* math.Floor(-1*m/k*math.Log(1-x/m)/math.Log(math.E) + 0.5) for 0 <= x < m
ApproxSize(m, k, x) ==
    (2 * m * (LnInt(m) - LnInt(m - x)) + k * LogScale) \div (2 * k * LogScale)

\* the values ApproximatedSize can return with x bits counted: for x >= m
\* the float64 is +Inf or NaN and its conversion to uint32 is
\* implementation-dependent
ApproxOutcomes(fr, x) ==
    IF x < Cap(fr) THEN {ApproxSize(Cap(fr), FilterK(fr), x)} ELSE {0, SizeMax}

\* ApproximatedSize: one BITCOUNT of the key, then the estimate
ApproximatedSize(c, f) ==
    /\ Free(c)
    /\ nops < MaxOps
    /\ nops' = nops + 1
    /\ f \in DOMAIN filter
    /\ LET x == RedisCount(bitset[filter[f].b], store)
       IN  \E v \in ApproxOutcomes(filter[f], x) :
               call' = [call EXCEPT ![c] =
                   [IdleCall EXCEPT !.pc = "done", !.op = "ApproximatedSize", !.f = f,
                                    !.args = <<x>>, !.out = <<v>>]]
    /\ UNCHANGED <<store, bitset, filter, stream, added, expect, dirty, wrote, overlap>>

\* one caller builds filters by New, adds keys and asks for the size
NextSize ==
    \/ Build
    \/ \E f \in FilterIds, d \in Data : Begin(1, f, "Add", d, MaxOps)
    \/ AddStep(1)
    \/ Return(1)
    \/ \E f \in FilterIds : ApproximatedSize(1, f)
    \/ Ack(1)

SpecSize == Init /\ [][NextSize]_vars

\* the arguments of EstimateParameters: n items, false-positive rate 1/q
EstimateN == (1..MaxN) \cup {1000}
EstimateQ == {2, 10, 100, 1000}

\* a caller is about to call EstimateParameters(n, 1/q); nothing else exists
InitEstimate ==
    /\ store = << >>
    /\ bitset = Handles
    /\ filter = << >>
    /\ stream = << >>
    /\ \E n \in EstimateN, q \in EstimateQ :
           call = [c \in Callers |->
                      IF c = 1
                      THEN [IdleCall EXCEPT !.pc = "loop", !.op = "EstimateParameters",
                                            !.args = <<n, q>>]
                      ELSE IdleCall]
    /\ added = {}
    /\ expect = << >>
    /\ dirty = {}
    /\ wrote = [f |-> Nil, added |-> {}]
    /\ nops = 0
    /\ overlap = FALSE

\* EstimateParameters returns m and k
Estimate(c) ==
    /\ call[c].pc = "loop" /\ call[c].op = "EstimateParameters"
    /\ call' = [call EXCEPT
           ![c].pc = "done",
           ![c].out = EstimateParameters(call[c].args[1], call[c].args[2])]
    /\ UNCHANGED <<store, bitset, filter, stream, added, expect, dirty, wrote, nops, overlap>>

NextEstimate == Estimate(1) \/ Ack(1)

SpecEstimate == InitEstimate /\ [][NextEstimate]_vars

\* one caller, key operations and ClearAll: every operation runs to its
\* return before the next is called
NextSeq ==
    \/ Build
    \/ \E f \in FilterIds, op \in KeyOps, d \in Data : Begin(1, f, op, d, MaxOps)
    \/ KeySteps(1)
    \/ \E f \in FilterIds : ClearAll(1, f)

SpecSeq == Init /\ [][NextSeq]_vars

\* one caller that adds, clears, encodes, decodes and compares
NextCodec ==
    \/ Build
    \/ \E f \in FilterIds, d \in Data : Begin(1, f, "Add", d, MaxOps)
    \/ AddStep(1)
    \/ Return(1)
    \/ Ack(1)
    \/ \E f \in FilterIds : ClearAll(1, f)
    \/ \E f \in FilterIds : WriteTo(1, f)
    \/ \E g \in FilterIds : ReadFrom(1, g)
    \/ \E f \in FilterIds, g \in FilterIds : BeginEqual(1, f, g)
    \/ EqualGet1(1)
    \/ EqualGet2(1)

SpecCodec == Init /\ [][NextCodec]_vars

\* f := New(MaxM, MaxK, b1) and g := New(3, 2, b1) were built on the same
\* handle: two filters with different parameters on one external key
InitShared ==
    /\ store = RedisInit(Handles["b1"], RedisInit(Handles["b1"], << >>, MaxM), 3)
    /\ bitset = Handles
    /\ filter = ("f" :> [m |-> max(1, MaxM), k |-> max(1, MaxK), b |-> "b1"])
                  @@ ("g" :> [m |-> max(1, 3), k |-> max(1, 2), b |-> "b1"])
    /\ stream = << >>
    /\ call = [c \in Callers |-> IdleCall]
    /\ added = {}
    /\ expect = (Handles["b1"].bitsetKey :> {})
    /\ dirty = {}
    /\ wrote = [f |-> Nil, added |-> {}]
    /\ nops = 0
    /\ overlap = FALSE

\* one caller runs every operation of the two filters, decoding included
NextLifetime ==
    \/ \E f \in FilterIds, op \in KeyOps, d \in Data : Begin(1, f, op, d, MaxOps)
    \/ KeySteps(1)
    \/ \E f \in DOMAIN filter : \E locs \in LocLists(filter[f]) : BeginLocations(1, f, locs)
    \/ TestLocationsStep(1)
    \/ \E f \in FilterIds : ClearAll(1, f)
    \/ \E f \in FilterIds : ApproximatedSize(1, f)
    \/ \E f \in FilterIds, g \in FilterIds : BeginEqual(1, f, g)
    \/ EqualGet1(1)
    \/ EqualGet2(1)
    \/ \E f \in FilterIds : WriteTo(1, f)
    \/ \E g \in FilterIds : ReadFrom(1, g)

SpecLifetime == InitShared /\ [][NextLifetime]_vars

\* one caller builds filters by New and From, adds keys in every way,
\* clears, encodes and decodes
NextTtl ==
    \/ \E f \in FilterIds : \E b \in HandlesFor(f) : New(1, f, MaxM, MaxK, b)
    \/ \E f \in FilterIds : \E b \in HandlesFor(f) : From(1, f, <<SampleWord>>, MaxK, b)
    \/ \E f \in FilterIds, op \in AddOps, d \in Data : Begin(1, f, op, d, MaxOps - 1)
    \/ AddStep(1)
    \/ TestAndAddTest(1) \/ TestAndAddSet(1)
    \/ TestOrAddTest(1) \/ TestOrAddSet(1)
    \/ Return(1)
    \/ Ack(1)
    \/ \E f \in FilterIds : ClearAll(1, f)
    \/ \E f \in FilterIds : WriteTo(1, f)
    \/ \E g \in FilterIds : ReadFrom(1, g)

SpecTtl == Init /\ [][NextTtl]_vars

\* two callers; caller 2 only calls while caller 1 is inside an operation
\* (callers are interchangeable), and at most one pair of operations
\* overlaps in a run
Sched(c) ==
    /\ (c = 2) => InFlight(1)
    /\ (\E o \in Callers : InFlight(o)) => ~overlap

\* caller 1 adds and clears; caller 2 joins one of its Add calls with an
\* Add, TestAndAdd or TestOrAdd of its own; commands interleave one by one
NextAdders ==
    \/ \E f \in FilterIds, d \in Data : Sched(1) /\ Begin(1, f, "Add", d, MaxOps)
    \/ \E f \in FilterIds, op \in AddOps, d \in Data : Sched(2) /\ Begin(2, f, op, d, MaxOps)
    \/ \E c \in Callers : AddStep(c)
    \/ TestAndAddTest(2) \/ TestAndAddSet(2)
    \/ TestOrAddTest(2) \/ TestOrAddSet(2)
    \/ \E c \in Callers : Return(c) \/ Ack(c)
    \/ \E c \in Callers, f \in FilterIds : Sched(c) /\ ClearAll(c, f)

SpecAdders == InitShared /\ [][NextAdders]_vars

\* callers that test-and-add, test and clear interleave command by command
NextRace ==
    \/ \E c \in Callers, f \in FilterIds, op \in {"TestAndAdd", "TestOrAdd", "Test"}, d \in Data :
           Sched(c) /\ Begin(c, f, op, d, MaxOps)
    \/ \E c \in Callers : TestStep(c)
    \/ \E c \in Callers : TestAndAddTest(c) \/ TestAndAddSet(c)
    \/ \E c \in Callers : TestOrAddTest(c) \/ TestOrAddSet(c)
    \/ \E c \in Callers : Return(c) \/ Ack(c)
    \/ \E c \in Callers, f \in FilterIds : Sched(c) /\ ClearAll(c, f)

SpecRace == InitShared /\ [][NextRace]_vars

\* callers that add and test interleave command by command, one operation
\* more
NextReaders ==
    \/ \E c \in Callers, f \in FilterIds, op \in {"Add", "Test"}, d \in Data :
           Sched(c) /\ Begin(c, f, op, d, MaxOps + 1)
    \/ \E c \in Callers : AddStep(c) \/ TestStep(c) \/ Return(c) \/ Ack(c)

SpecReaders == InitShared /\ [][NextReaders]_vars


(* ------------------------- sequential claims --------------------------- *)
Done(c, op) == call[c].pc = "done" /\ call[c].op = op
\* the filter parameters and the raw value the finished call of c ran on
ParamsOf(c) == filter[call[c].f]
ValueOf(c) == RGet(store, KeyOf(call[c].f))

RECURSIVE SetAll(_, _, _, _)
\* the raw value after setting positions i..k-1 of d one after the other
SetAll(val, fr, d, i) ==
    IF i >= fr.k THEN val
    ELSE SetAll(SetBit(val, flocation(fr, baseHashes(d), i), 1), fr, d, i + 1)

\* the positions a finished call issued Set on, in order
SetsOf(log) == [j \in 1..Len(SelectSeq(log, LAMBDA e : e[1] = "Set")) |->
                   SelectSeq(log, LAMBDA e : e[1] = "Set")[j][2]]

\* C1: no false negatives: a Test of a key x returns true whenever Add(x)
\* has returned on that filter before and no ClearAll, decode or
\* re-initialisation of the key happened since, whatever Add, TestAndAdd,
\* TestOrAdd and Test calls came in between
C1_NoFalseNegatives ==
    \A c \in Callers :
        (Done(c, "Test") /\ call[c].clean /\ <<"Add", TRUE>> \in call[c].est)
            => call[c].ret

\* C1 witness: Test(x) returned true as the third operation after Add(x)
C1_Witness ==
    /\ Done(1, "Test") /\ <<"Add", TRUE>> \in call[1].est /\ call[1].ret
    /\ nops >= 3
    /\ Cardinality(added) >= 2

\* C2: Test(key) returns true exactly when every one of the k positions of
\* the key is set in the storage at the call; on a storage without any set
\* bit it returns false
C2_TestIffAllSet ==
    \A c \in Callers :
        (Done(c, "Test") /\ call[c].alone) =>
            /\ call[c].ret = AllSet(call[c].pre, ParamsOf(c), call[c].data)
            /\ (Bits(call[c].pre) = {} => ~call[c].ret)

\* C2 witness: a Test returned false although some of its positions, and
\* not all of them, were set
C2_Witness ==
    /\ Done(1, "Test") /\ call[1].alone /\ ~call[1].ret
    /\ \E p \in Positions(ParamsOf(1), call[1].data) : GetBit(call[1].pre, p) = 1

\* C3: with a single caller TestAndAdd(key) returns what Test(key) would
\* have returned right before it, and leaves the storage as Add(key) leaves
\* it, also when positions of the key coincide
C3_TestAndAddIsTestThenAdd ==
    \A c \in Callers :
        /\ (Done(c, "TestAndAdd") /\ call[c].alone) =>
              /\ call[c].ret = AllSet(call[c].pre, ParamsOf(c), call[c].data)
              /\ ValueOf(c) = SetAll(call[c].pre, ParamsOf(c), call[c].data, 0)
        /\ (Done(c, "Add") /\ call[c].alone) =>
              ValueOf(c) = SetAll(call[c].pre, ParamsOf(c), call[c].data, 0)

\* C3 witness: TestAndAdd returned false for a key with coinciding positions
\* of which some were set before
C3_Witness ==
    /\ Done(1, "TestAndAdd") /\ call[1].alone /\ ~call[1].ret
    /\ Cardinality(Positions(ParamsOf(1), call[1].data)) < ParamsOf(1).k
    /\ Cardinality(Positions(ParamsOf(1), call[1].data)) > 1
    /\ Bits(call[1].pre) # {}

\* C4: from the same state and for the same key TestOrAdd and TestAndAdd
\* return the same value (whether all k positions were set) and end with
\* the same raw value (all k positions set); TestAndAdd issues Set on each
\* of the k positions, TestOrAdd only on the positions it found unset
C4_TestOrAddVersusTestAndAdd ==
    \A c \in Callers :
        /\ (call[c].pc = "done" /\ call[c].op \in {"TestAndAdd", "TestOrAdd"} /\ call[c].alone) =>
              /\ call[c].ret = AllSet(call[c].pre, ParamsOf(c), call[c].data)
              /\ ValueOf(c) = SetAll(call[c].pre, ParamsOf(c), call[c].data, 0)
              /\ AllSet(ValueOf(c), ParamsOf(c), call[c].data)
        /\ (Done(c, "TestAndAdd") /\ call[c].alone) =>
              SetsOf(call[c].log) =
                  [j \in 1..ParamsOf(c).k |->
                      flocation(ParamsOf(c), baseHashes(call[c].data), j - 1)]
        /\ (Done(c, "TestOrAdd") /\ call[c].alone) =>
              /\ \A j \in 1..Len(call[c].log) :
                    /\ call[c].log[j][1] = "Set" =>
                          /\ j > 1
                          /\ call[c].log[j - 1] = <<"Test", call[c].log[j][2], FALSE>>
                    /\ (call[c].log[j][1] = "Test" /\ ~call[c].log[j][3]) =>
                          /\ j < Len(call[c].log)
                          /\ call[c].log[j + 1] = <<"Set", call[c].log[j][2]>>
              /\ Len(SetsOf(call[c].log)) =
                    Cardinality(Positions(ParamsOf(c), call[c].data) \ Bits(call[c].pre))

\* C4 witness: a TestOrAdd found one position set and another unset
C4_Witness ==
    /\ Done(1, "TestOrAdd") /\ call[1].alone /\ ~call[1].ret
    /\ \E j \in 1..Len(call[1].log) : call[1].log[j][1] = "Test" /\ call[1].log[j][3]
    /\ Len(SetsOf(call[1].log)) >= 1
    /\ Len(SetsOf(call[1].log)) < ParamsOf(1).k

\* C9: reading the bytes that WriteTo / GobEncode wrote for a filter f
\* into a filter g succeeds, whatever m, k and external key g had: g then
\* has the m and k of f, its storage is Equal to that of f, and every key
\* that had been added to f when it was written tests true in g
C9_BinaryRoundTrip ==
    \A c \in Callers :
        (Done(c, "ReadFrom") /\ wrote.f # Nil) =>
            LET g == filter[call[c].f]
                f == filter[wrote.f]
            IN  /\ ~call[c].err
                /\ g.m = f.m
                /\ g.k = f.k
                /\ RawEqual(RGet(store, bitset[g.b].bitsetKey),
                            RGet(store, bitset[f.b].bitsetKey))
                /\ \A x \in wrote.added :
                       AllSet(RGet(store, bitset[g.b].bitsetKey), g, x)

\* C9 witness: g, built on its own handle and key, was read from the bytes
\* of f after a key had been added to f, and its handle now names f's key
C9_Witness ==
    /\ Done(1, "ReadFrom") /\ ~call[1].err
    /\ call[1].f = "g" /\ wrote.f = "f"
    /\ filter["g"].b = "b2"
    /\ bitset["b2"] = bitset["b1"]
    /\ wrote.added # {}
    /\ \E x \in wrote.added : AllSet(ValueOf(1), ParamsOf(1), x)

\* C10: f.Equal(g) is true exactly when f and g have the same m, the same
\* k and the same set of set bit positions, whatever their external keys
\* and whatever history left the bits as they are
C10_EqualIffSameBits ==
    \A c \in Callers :
        Done(c, "Equal") =>
            call[c].ret =
                (/\ filter[call[c].f].m = filter[call[c].g].m
                 /\ filter[call[c].f].k = filter[call[c].g].k
                 /\ Bits(RGet(store, KeyOf(call[c].f))) = Bits(RGet(store, KeyOf(call[c].g))))

(* ------------------------- concurrent claims --------------------------- *)
Quiet == \A c \in Callers : ~InFlight(c)
TestAdds == {"TestAndAdd", "TestOrAdd"}
\* a step that is a ClearAll call
IsClearAll == \E c \in Callers : call'[c] # call[c] /\ call'[c].op = "ClearAll"

\* C5 (state): once every call has returned, the set bits of a key are the
\* bits it had at its last reset together with the positions of every key
\* added since, whatever the interleaving of the set-bit commands was
C5_Union ==
    Quiet => \A K \in DOMAIN store :
                 K \notin dirty => Bits(RGet(store, K)) = EGet(K)

\* C5 (step): no command of Add, TestAndAdd, TestOrAdd or Test turns a bit
\* from 1 to 0
C5_Monotone ==
    ~IsClearAll =>
        \A K \in DOMAIN store : Bits(RGet(store, K)) \subseteq Bits(RGet(store', K))

\* C5: concurrent adds end with exactly the union of their positions and
\* the bits set before, and bits only go from 0 to 1 meanwhile
C5_ConcurrentAdds == [](C5_Union) /\ [][C5_Monotone]_vars

\* C5 witness: two Add calls of different data keys with a common position
\* overlapped on the same filter and both returned
C5_Witness ==
    /\ Done(1, "Add") /\ Done(2, "Add")
    /\ ~call[1].alone /\ ~call[2].alone
    /\ call[1].f = call[2].f /\ call[1].data # call[2].data
    /\ KeyOf(call[1].f) \notin dirty
    /\ Positions(ParamsOf(1), call[1].data) \cap Positions(ParamsOf(2), call[2].data) # {}
    /\ Bits(ValueOf(1)) = Positions(ParamsOf(1), call[1].data)
                              \cup Positions(ParamsOf(2), call[2].data)

\* C6: two TestAndAdd / TestOrAdd calls of the same data key on the same
\* filter can both return false only when neither began after a call that
\* added the key had returned (no ClearAll hitting either call): a winner
\* is guaranteed for calls in sequence, not for calls that overlap
C6_BothFalseOnlyWhenRacing ==
    \A c, o \in Callers :
        (/\ c # o
         /\ call[c].pc = "done" /\ call[c].op \in TestAdds
         /\ call[o].pc = "done" /\ call[o].op \in TestAdds
         /\ call[c].f = call[o].f /\ call[c].data = call[o].data
         /\ call[c].clean /\ call[o].clean
         /\ ~call[c].ret /\ ~call[o].ret)
        => \A e \in call[c].est \cup call[o].est : ~e[2]

\* C6 witness: two overlapping TestAndAdd / TestOrAdd calls of one data key
\* that was not present, on one filter, both returned false
C6_Witness ==
    /\ call[1].pc = "done" /\ call[1].op \in TestAdds
    /\ call[2].pc = "done" /\ call[2].op = call[1].op
    /\ call[1].f = call[2].f /\ call[1].data = call[2].data
    /\ ~call[1].was /\ ~call[2].was
    /\ call[1].clean /\ call[2].clean
    /\ ~call[1].ret /\ ~call[2].ret

\* C7 as stated: after a TestAndAdd / TestOrAdd of x on an external key has
\* returned, a Test, TestAndAdd or TestOrAdd of x through any filter on
\* that key returns true
C7_AnyHandle ==
    \A c \in Callers :
        (/\ call[c].pc = "done" /\ call[c].op \in TestAdds \cup {"Test"}
         /\ call[c].clean
         /\ \E e \in call[c].est : e[1] = "TestAdd")
        => call[c].ret

\* C7 amended: after a TestAndAdd / TestOrAdd of x has returned, however it
\* interleaved with others, a later Test, TestAndAdd or TestOrAdd of x
\* through a filter with the same m and k on that key returns true, as long
\* as no ClearAll, decode or re-initialisation hits the key
C7_Convergence ==
    \A c \in Callers :
        (/\ call[c].pc = "done" /\ call[c].op \in TestAdds \cup {"Test"}
         /\ call[c].clean
         /\ <<"TestAdd", TRUE>> \in call[c].est)
        => call[c].ret

\* C7 witness: a Test returned true after two TestAndAdd / TestOrAdd
\* calls of its key had overlapped, of which the one of caller 2 had
\* returned false
C7_Witness ==
    /\ Done(1, "Test") /\ call[1].ret /\ <<"TestAdd", TRUE>> \in call[1].est
    /\ call[2].pc = "done" /\ call[2].op \in TestAdds /\ ~call[2].ret
    /\ call[2].f = call[1].f /\ call[2].data = call[1].data
    /\ nops >= 3

C11_Cleared ==
    \A c \in Callers :
        Done(c, "ClearAll") =>
            /\ RedisCount(bitset[ParamsOf(c).b], store) = 0
            /\ \A d \in Data : ~AllSet(ValueOf(c), ParamsOf(c), d)

\* C11 (step): ClearAll leaves m and k of every filter and the external
\* key of every handle as they were
C11_Frame == IsClearAll => (filter' = filter /\ bitset' = bitset)

\* C11: ClearAll resets every bit to 0 (Count() is 0, Test is false for
\* every key) and leaves m, k and the external key of the storage unchanged
C11_ClearAllResets == [](C11_Cleared) /\ [][C11_Frame]_vars

\* C11 witness: ClearAll was called on a storage with set bits
C11_Witness ==
    /\ Done(1, "ClearAll")
    /\ Bits(call[1].pre) # {}
    /\ Bits(ValueOf(1)) = {}

\* C12: New(m, k, storage) never fails, whatever m and k, and returns a
\* filter with Cap() = max(1, m) and K() = max(1, k); NewWithEstimates(n, p,
\* storage) returns the filter, and leaves the storage, that New builds from
\* the m and k of EstimateParameters(n, p)
C12_NewClamps ==
    \A c \in Callers :
        /\ Done(c, "New") =>
              /\ ~call[c].err
              /\ Cap(ParamsOf(c)) = IF call[c].args[1] >= 1 THEN call[c].args[1] ELSE 1
              /\ FilterK(ParamsOf(c)) = IF call[c].args[2] >= 1 THEN call[c].args[2] ELSE 1
        /\ Done(c, "NewWithEstimates") =>
              LET e == EstimateParameters(call[c].args[1], call[c].args[2])
              IN  /\ ~call[c].err
                  /\ Cap(ParamsOf(c)) = IF e[1] >= 1 THEN e[1] ELSE 1
                  /\ FilterK(ParamsOf(c)) = IF e[2] >= 1 THEN e[2] ELSE 1
                  /\ ValueOf(c) = SetBit(call[c].pre, e[1], 0)

\* C12 witness: f was built by New(0, 0, b) and g by NewWithEstimates
C12_Witness ==
    /\ Done(1, "NewWithEstimates") /\ call[1].f = "g"
    /\ "f" \in DOMAIN filter
    /\ Cap(filter["f"]) = 1 /\ FilterK(filter["f"]) = 1
    /\ Cap(filter["g"]) > 1

\* C13: right after New / NewWithEstimates on a handle, whatever bits its
\* external key held before, every position 0..m-1 reads 0: Count() is 0
\* and Test is false for every key
C13_InitClears ==
    \A c \in Callers :
        (call[c].pc = "done" /\ call[c].op \in {"New", "NewWithEstimates"}) =>
            /\ \A p \in 0..(Cap(ParamsOf(c)) - 1) : GetBit(ValueOf(c), p) = 0
            /\ RedisCount(bitset[ParamsOf(c).b], store) = 0
            /\ \A d \in Data : ~AllSet(ValueOf(c), ParamsOf(c), d)

\* C14: every filter, however it was obtained, has m >= 1 and k >= 1 in
\* every reachable state, so that the reduction modulo m is always defined
C14_ParamsPositive ==
    \A f \in DOMAIN filter : Cap(filter[f]) >= 1 /\ FilterK(filter[f]) >= 1

\* C15: a.InPlaceUnion(b) ORs the bits of b into a: afterwards a position
\* of a is set exactly when it was set in a or in b before the call, b is
\* as it was, and no bit that was set in a is cleared
C15_UnionIsOr ==
    \A c \in Callers :
        Done(c, "InPlaceUnion") =>
            LET a == bitset[call[c].args[1]].bitsetKey
                b == bitset[call[c].args[2]].bitsetKey
            IN  /\ Bits(RGet(store, a)) = Bits(call[c].pre) \cup Bits(call[c].tmp)
                /\ Bits(RGet(store, b)) = Bits(call[c].tmp)
                /\ Bits(call[c].pre) \subseteq Bits(RGet(store, a))

(* --------------------------- error handling ---------------------------- *)
\* C16: an Add or Test one of whose commands failed surfaces an error: a
\* Test of a key whose positions were all set does not return false
\* because its get-bit failed, and an Add does not return normally after
\* one of its set-bit commands was lost
C16_ErrorsSurface ==
    \A c \in Callers :
        /\ (call[c].pc = "done" /\ call[c].op \in {"Add", "Test"} /\ call[c].failed)
               => call[c].err
        /\ (Done(c, "Test") /\ call[c].failed /\ call[c].was)
               => (call[c].ret \/ call[c].err)

\* C17: ReadFrom / GobDecode of a strict prefix of the bytes WriteTo wrote,
\* wherever the cut is, returns an error
C17_TruncatedFails ==
    \A c \in Callers : Done(c, "ReadFromCut") => call[c].err

\* a step that is a decode returning an error
IsFailedDecode ==
    \E c \in Callers :
        /\ call'[c] # call[c]
        /\ call'[c].pc = "done" /\ call'[c].op \in {"ReadFrom", "ReadFromCut"}
        /\ call'[c].err

\* C18: a decode that returns an error leaves m and k of the filter, the
\* external key and TTL of its handle, and the remote contents as they were
C18_FailedDecodeNoEffect ==
    [][IsFailedDecode => (filter' = filter /\ bitset' = bitset /\ store' = store)]_vars

(* ------------------------------ From ----------------------------------- *)
\* whether Test(d) returns the same on the filters f and g, Test returning
\* on both
SameTest(f, g, d) ==
    AllSet(RGet(store, KeyOf(f)), filter[f], d) = AllSet(RGet(store, KeyOf(g)), filter[g], d)

\* C19 (From): From(words, k, storage) returns a filter with
\* Cap() = 64 * len(words) and K() = k whose raw value is the given words,
\* each as 8 bytes, the least significant first
C19_FromInstalls ==
    \A c \in Callers :
        (call[c].pc = "done" /\ call[c].op \in {"From", "Clone"}) =>
            /\ Cap(ParamsOf(c)) = 64 * Len(call[c].args[1])
            /\ FilterK(ParamsOf(c)) = call[c].args[2]
            /\ Len(ValueOf(c)) = 8 * Len(call[c].args[1])
            /\ \A j \in 1..Len(call[c].args[1]) : \A i \in 1..8 :
                   ValueOf(c)[8 * (j - 1) + i] = call[c].args[1][j][9 - i]

\* C19 as stated: the filter built by From from the exported words of any
\* filter answers Test as the original does
C19_CloneTestsAlike ==
    \A c \in Callers :
        (Done(c, "Clone") /\ ~Panics(filter[call[c].g])) =>
            /\ ~Panics(ParamsOf(c))
            /\ \A d \in Data : SameTest(call[c].g, call[c].f, d)

\* C19 amended: From installs the words as they are, and the filter built
\* by From from the exported words of a filter whose Cap() is 8 times the
\* byte length of its raw value, a whole number of words, answers Test as
\* the original does
C19_FromRoundTrip ==
    /\ C19_FromInstalls
    /\ \A c \in Callers :
           (/\ Done(c, "Clone")
            /\ Cap(filter[call[c].g]) = 8 * Len(RGet(store, KeyOf(call[c].g)))
            /\ ~Panics(filter[call[c].g]))
           => /\ ~Panics(ParamsOf(c))
              /\ \A d \in Data : SameTest(call[c].g, call[c].f, d)

\* C19 witness: f was built by From and added to, and its export g has a
\* key that tests true and a key that tests false, as f has
C19_Witness ==
    /\ Done(1, "Clone")
    /\ Cap(filter["f"]) = 8 * Len(RGet(store, KeyOf("f")))
    /\ Cap(filter["g"]) = 64
    /\ \E d \in Data : AllSet(ValueOf(1), ParamsOf(1), d)
    /\ \E d \in Data : ~AllSet(ValueOf(1), ParamsOf(1), d)
    /\ Bits(ValueOf(1)) # {}

(* -------------------------- TestLocations ------------------------------ *)
\* C20: TestLocations(locs) returns true exactly when for every v in locs
\* the bit at position v mod m is set, so true for the empty list; for the
\* k locations of a key x it returns what Test(x) returns on that state,
\* whether all positions of x are set
C20_TestLocations ==
    \A c \in Callers :
        Done(c, "TestLocations") =>
            /\ call[c].ret =
                  (\A j \in 1..Len(call[c].args) :
                       GetBit(call[c].pre, call[c].args[j] % ParamsOf(c).m) = 1)
            /\ (call[c].args = <<>>) => call[c].ret
            /\ \A d \in Data :
                  (call[c].args = Locations(d, ParamsOf(c).k)) =>
                      (call[c].ret = AllSet(call[c].pre, ParamsOf(c), d))

\* C20 witness: TestLocations returned true for the locations of a key of
\* a filter with several positions, one of them beyond m before the
\* reduction
C20_Witness ==
    /\ Done(1, "TestLocations") /\ call[1].ret
    /\ \E d \in Data : call[1].args = Locations(d, ParamsOf(1).k)
    /\ Len(call[1].args) >= 2
    /\ \E j \in 1..Len(call[1].args) : call[1].args[j] >= ParamsOf(1).m


(* ---------------------------- wire format ------------------------------ *)
\* C21: WriteTo returns the number of bytes it wrote, 16 header bytes plus
\* the storage payload, and a ReadFrom of those bytes returns that number,
\* whatever the length of the key and of the bit string
C21_ByteCounts ==
    \A c \in Callers :
        /\ Done(c, "WriteTo") =>
              /\ call[c].out = <<Len(stream)>>
              /\ Len(stream) = 16 + (24 + Len(KeyOf(call[c].f)) + Len(ValueOf(c)))
        /\ (Done(c, "ReadFrom") /\ wrote.f # Nil) =>
              /\ ~call[c].err
              /\ call[c].out = <<Len(stream)>>

\* C21 witness: an empty bit string under the two-byte key was written and
\* read back
C21_Witness ==
    /\ Done(1, "ReadFrom") /\ ~call[1].err /\ wrote.f # Nil
    /\ ValueOf(1) = <<>>
    /\ Len(KeyOf(call[1].f)) = 2
    /\ call[1].out = <<42>>


\* whether the 8 bytes bs are the number n < 2^16, most significant byte
\* first
IsBigEndian(bs, n) ==
    /\ Len(bs) = 8
    /\ \A j \in 1..6 : bs[j] = 0
    /\ bs[7] = n \div 256
    /\ bs[8] = n % 256

\* C22: the bytes WriteTo writes are, in this order and nothing else: m, k
\* and the key length as 8 bytes big-endian each, the key bytes, the TTL
\* as 8 bytes big-endian, the length of the raw bit string as 8 bytes
\* big-endian, and the raw bit string stored under the key at the call
C22_WireLayout ==
    \A c \in Callers :
        Done(c, "WriteTo") =>
            LET fr == ParamsOf(c)
                K  == KeyOf(call[c].f)
                v  == ValueOf(c)
                kl == Len(K)
            IN  /\ Len(stream) = 40 + kl + Len(v)
                /\ IsBigEndian(SubSeq(stream, 1, 8), fr.m)
                /\ IsBigEndian(SubSeq(stream, 9, 16), fr.k)
                /\ IsBigEndian(SubSeq(stream, 17, 24), kl)
                /\ SubSeq(stream, 25, 24 + kl) = K
                /\ IsBigEndian(SubSeq(stream, 25 + kl, 32 + kl), bitset[fr.b].expiration)
                /\ IsBigEndian(SubSeq(stream, 33 + kl, 40 + kl), Len(v))
                /\ SubSeq(stream, 41 + kl, 40 + kl + Len(v)) = v

\* C22 witness: a filter with set bits in a two-byte value was written
C22_Witness ==
    /\ Done(1, "WriteTo")
    /\ Len(ValueOf(1)) = 2
    /\ Bits(ValueOf(1)) # {}
    /\ stream[8] = MaxM
    /\ bitset[ParamsOf(1).b].expiration > 0


(* ------------------------------ estimates ------------------------------ *)
\* C24: EstimateParameters(n, p) returns as m the least integer that is at
\* least -n ln p / (ln 2)^2 and as k the least integer that is at least
\* ln 2 * m / n; for n = 1000 and p = 0.01 these are 9586 and 7
C24_ClosedForms ==
    \A c \in Callers :
        Done(c, "EstimateParameters") =>
            LET n == call[c].args[1]
                q == call[c].args[2]
                m == call[c].out[1]
                k == call[c].out[2]
            IN  /\ m * Log2Sq >= n * NegLog(q)
                /\ (m - 1) * Log2Sq < n * NegLog(q)
                /\ k * n * LogScale >= Log2 * m
                /\ (k - 1) * n * LogScale < Log2 * m
                /\ (n = 1000 /\ q = 100) => (m = 9586 /\ k = 7)

\* C24 witness: EstimateParameters(1000, 0.01) returned 9586 and 7
C24_Witness ==
    /\ Done(1, "EstimateParameters")
    /\ call[1].args = <<1000, 100>>
    /\ call[1].out = <<9586, 7>>


\* C25: ApproximatedSize returns round(-m/k * ln(1 - x/m)) for x bits set,
\* 0 when no bit is set, and a finite and sane value when every bit is
\* set: below the largest integer and no smaller than with m - 1 bits set
C25_SizeEstimate ==
    \A c \in Callers :
        Done(c, "ApproximatedSize") =>
            LET fr == ParamsOf(c)
                x  == call[c].args[1]
                v  == call[c].out[1]
            IN  /\ x < fr.m => v = ApproxSize(fr.m, fr.k, x)
                /\ x = 0 => v = 0
                /\ x = fr.m => (v < SizeMax /\ v >= ApproxSize(fr.m, fr.k, fr.m - 1))


(* ------------------------------ lifetime ------------------------------- *)
\* C23: m and k of a filter are fixed for its lifetime: a step that changes
\* the m or k of a filter is a ReadFrom (GobDecode) of that filter; Add,
\* Test, TestLocations, TestAndAdd, TestOrAdd, ClearAll, ApproximatedSize,
\* Equal and WriteTo (GobEncode) leave both unchanged
C23_ParamsFixed ==
    [][\A f \in DOMAIN filter :
           /\ f \in DOMAIN filter'
           /\ <<Cap(filter'[f]), FilterK(filter'[f])>> # <<Cap(filter[f]), FilterK(filter[f])>>
                  => \E c \in Callers :
                         /\ Free(c)
                         /\ call'[c].pc = "done"
                         /\ call'[c].op = "ReadFrom"
                         /\ call'[c].f = f]_vars

\* C23 witness: g took the parameters of f by ReadFrom, and a ClearAll of g
\* has returned since
C23_Witness ==
    /\ Done(1, "ClearAll")
    /\ call[1].f = "g"
    /\ <<Cap(filter["g"]), FilterK(filter["g"])>> = <<max(1, MaxM), max(1, MaxK)>>


(* --------------------------- offsets in range -------------------------- *)
\* the operations of a filter that send SETBIT / GETBIT commands
BitOps == {"New", "NewWithEstimates", "TestLocations"} \cup KeyOps

\* C26: every offset that New, Add, Test, TestLocations, TestAndAdd or
\* TestOrAdd sends with a SETBIT or GETBIT lies in 0..m-1, m the Cap() of
\* the filter; none addresses offset m or beyond
C26_OffsetsInRange ==
    \A c \in Callers :
        (call[c].op \in BitOps /\ call[c].f \in DOMAIN filter) =>
            \A j \in 1..Len(call[c].log) :
                call[c].log[j][2] \in 0..(Cap(filter[call[c].f]) - 1)


(* ------------------------------ reattach ------------------------------- *)
\* the key, the TTL and the bit string embedded in the bytes last written,
\* all lengths below 2^16
PayloadKey == SubSeq(stream, 25, 24 + 256 * stream[23] + stream[24])
PayloadTtl ==
    256 * stream[31 + Len(PayloadKey)] + stream[32 + Len(PayloadKey)]
PayloadBits == SubSeq(stream, 41 + Len(PayloadKey), Len(stream))

\* a ReadFrom of caller c has returned without error
Decoded(c) == Done(c, "ReadFrom") /\ ~call[c].err

\* after a successful ReadFrom the handle of the decoding filter has the key
\* and the TTL of the payload, which is the key of the filter that wrote it
C27_Attached ==
    \A c \in Callers :
        Decoded(c) =>
            /\ KeyOf(call[c].f) = PayloadKey
            /\ bitset[ParamsOf(c).b].expiration = PayloadTtl
            /\ KeyOf(call[c].f) = KeyOf(wrote.f)

\* an Add or a ClearAll through one filter is observed through every filter
\* of another handle that has the same key
C27_Observed ==
    \A c \in Callers : \A h \in DOMAIN filter :
        (call[c].pc = "done" /\ call[c].f \in DOMAIN filter
            /\ filter[h].b # ParamsOf(c).b /\ KeyOf(h) = KeyOf(call[c].f)) =>
            /\ call[c].op = "Add" =>
                   \A p \in Positions(ParamsOf(c), call[c].data) :
                       RedisTest(bitset[filter[h].b], store, p)
            /\ call[c].op = "ClearAll" => RedisCount(bitset[filter[h].b], store) = 0

\* a successful ReadFrom neither writes nor deletes the key its handle had
\* before, when that is not the key of the payload
C27_OldKeyKept ==
    \A c \in Callers :
        (Free(c) /\ Decoded(c)') =>
            LET old == KeyOf(call'[c].f)
            IN  old # PayloadKey =>
                    /\ (old \in DOMAIN store') = (old \in DOMAIN store)
                    /\ RGet(store', old) = RGet(store, old)
                    /\ RTtl(store', old) = RTtl(store, old)

\* C27: decode reattaches instead of copying: after g.ReadFrom succeeds on a
\* payload written by f, g's handle has the key and TTL of the payload,
\* which is f's key, later Add and ClearAll through g are observed by f and
\* vice versa, and the key g's handle had before is neither written nor
\* deleted
C27_Reattaches == [](C27_Attached /\ C27_Observed) /\ [][C27_OldKeyKept]_vars

\* C27 witness: g, built on the second handle, was attached to f's key by
\* ReadFrom, its old key still exists, and an Add through f has returned
C27_Witness ==
    /\ Done(1, "Add") /\ call[1].f = "f"
    /\ "g" \in DOMAIN filter /\ filter["g"].b = "b2" /\ filter["f"].b = "b1"
    /\ KeyOf("g") = KeyOf("f")
    /\ bitset["b2"].expiration = Handles["b1"].expiration
    /\ Handles["b2"].bitsetKey \in DOMAIN store


\* C28: a successful ReadFrom overwrites the value under the payload's key
\* with the payload's bit string: right after it the remote value is the
\* snapshot WriteTo took, and every bit set on the key since then is clear
C28_Overwrites ==
    \A c \in Callers :
        Decoded(c) =>
            /\ PayloadKey \in DOMAIN store
            /\ RGet(store, PayloadKey) = PayloadBits
            /\ \A p \in Bits(call[c].pre) \ Bits(PayloadBits) : ~RedisTest(bitset[ParamsOf(c).b], store, p)

\* C28 witness: a key was added between the WriteTo and the ReadFrom; all
\* its positions were set before the ReadFrom and are not after it
C28_Witness ==
    /\ Decoded(1)
    /\ \E d \in Data :
           /\ AllSet(call[1].pre, ParamsOf(1), d)
           /\ ~AllSet(ValueOf(1), ParamsOf(1), d)


(* ----------------------------- time-to-live ---------------------------- *)
\* the operations that write the whole value of the key
WholeWrites == {"ClearAll", "From", "ReadFrom"}

\* a whole-value write of caller c has returned without error
Wrote(c) == call[c].pc = "done" /\ call[c].op \in WholeWrites /\ ~call[c].err

\* ClearAll, From and ReadFrom leave the key with the TTL of the handle
C29_Applied ==
    \A c \in Callers :
        Wrote(c) => RTtl(store, KeyOf(call[c].f)) = bitset[ParamsOf(c).b].expiration

\* a step that creates a key with a TTL or changes the TTL of a key is the
\* ClearAll, From or ReadFrom of a filter of that key
C29_OnlyWholeWrites ==
    \A K \in DOMAIN store \cup DOMAIN store' :
        RTtl(store', K) # RTtl(store, K) =>
            \E c \in Callers :
                /\ Free(c)
                /\ Wrote(c)'
                /\ bitset'[filter'[call'[c].f].b].bitsetKey = K

\* C29: the TTL is applied to the external key only by ClearAll, From and
\* ReadFrom; Init, Set and UnSet never set or refresh it: a key created by
\* New and filled by Add, TestAndAdd and TestOrAdd has no expiration, and a
\* key given a TTL keeps it however many adds follow
C29_TtlOnlyByWholeWrites == [](C29_Applied) /\ [][C29_OnlyWholeWrites]_vars

\* C29 witness: an add has returned on a key that has bits set and a TTL
C29_Witness ==
    /\ call[1].pc = "done" /\ call[1].op \in AddOps
    /\ Bits(ValueOf(1)) # {}
    /\ RTtl(store, KeyOf(call[1].f)) > 0

====
